---- MODULE Spec2Model ----
(***************************************************************************)
(* SixelConverter (src/sixel/converter.py): the band-wise SIXEL encoder    *)
(* and the sequence writer around it.                                      *)
(*                                                                         *)
(* The sink is a sequence of tokens <<kind, a, b>>, one per output.write   *)
(* call:                                                                   *)
(*   <<"dcs",0,0>>      the introducer            (line 62)                *)
(*   <<"hdr",w,h>>      the header                (line 73)                *)
(*   <<"pal",n,0>>      palette definition of n   (line 86)                *)
(*   <<"col",c,0>>      "#c" opening a Color Node (line 167)               *)
(*   <<"lit",ch,n>>     chr(ch) written n times   (line 171)               *)
(*   <<"rep",n,ch>>     "!n" then chr(ch)         (line 173)               *)
(*   <<"cr",0,0>>       "$"                       (line 174)               *)
(*   <<"sep",0,0>>      "-"                       (line 178)               *)
(*   <<"st",0,0>>       the terminator            (line 189)               *)
(* The RGB values of the palette are not modelled: no claim reads them.    *)
(***************************************************************************)
EXTENDS Integers, Sequences, FiniteSets

\* ---------------------------------------------------------------- bounds
\* Images of the general family have at most MaxPixels pixels ...
MaxPixels == 6
\* ... or are a two-colour single column of at most MaxTall rows (two bands).
MaxTall == 7
\* Palette size (ncolor) of the images of at most MaxPixels pixels.
MaxColor == 2
\* Heights of the single-colour column images of the writer family.
MaxHeight == 13
\* Sides of the file and of the explicit w/h of the resizing family.
MaxSide == 2

\* ------------------------------------------------------- program constants
\* BG = 256, the sentinel for "background / no pixel set".
BG == 256
\* for y in range(0, height, 6); band = min(6, height - y)
BandRows == 6
\* chr(0x3f + six)
SixelBase == 63
\* if count < 4: literal repetition, else "!count ch"
RepeatMin == 4

\* cache = None
None == -1

\* Alpha values of the RGBA buffer and the alpha_threshold values tried.
AlphaLevels == {0, 255}
Thresholds == {0, 128}

VARIABLES
    width,            \* self.width
    height,           \* self.height
    ncolor,           \* self._ncolor
    data,             \* self.data: palette indices, data[p+1] is Python's data[p]
    alpha_threshold,  \* self.__alpha_threshold
    rawdata,          \* self.rawdata: alpha channel only, <<>> when never loaded
    body_only,        \* the argument of write()
    pc,               \* position inside write()
    y,                \* the band loop's y
    out,              \* the sink
    bands             \* per encoded band: its y, its buf and its add_node calls

vars == <<width, height, ncolor, data, alpha_threshold, rawdata, body_only,
          pc, y, out, bands>>

Min(a, b) == IF a < b THEN a ELSE b

RECURSIVE Pow2(_)
Pow2(i) == IF i = 0 THEN 1 ELSE 2 * Pow2(i - 1)

\* ------------------------------------------------------------ get_pixel
\* rawdata is passed to the body only when alpha_threshold > 0 (line 182).
RawGiven == alpha_threshold > 0

\* rawdata[p] raises IndexError when p is past the RGBA buffer.
PixelFails(p) == RawGiven /\ p >= Len(rawdata)

get_pixel(p) ==
    IF RawGiven /\ rawdata[p + 1] < alpha_threshold THEN BG ELSE data[p + 1]

\* band = min(6, height - y)
BandHeight(yy) == Min(BandRows, height - yy)

\* ------------------------------------------------------------- add_node
\* The state shared by the add_node calls of one band: seen, buf, the log
\* of calls (color, start_x) in call order, and whether an exception is
\* propagating.
EmptyBand == [seen |-> {}, buf |-> <<>>, calls |-> <<>>, err |-> FALSE]

\* if d == color
IsColor(d, color) == d = color

\* Mutant of SetBit: the shift is off by one (1 << (i + 1))
SetBitShifted(six, i) == six + Pow2(i + 1)

\* six |= 1 << i  (bit i is clear before: each i is visited once)
SetBit(six, i) == six + Pow2(i)

\* if d not in seen
IsNew(d, seen) == d \notin seen

\* Mutant of LeadingRun: the leading empty cells are forgotten
LeadingRunMissing(start_x) == <<>>

\* if start_x: nodes.append((0, start_x))
LeadingRun(start_x) == IF start_x # 0 THEN << <<0, start_x>> >> ELSE <<>>

\* Mutant of SameSymbol: equal symbols are never merged into one run
SameSymbolNever(six, cache) == FALSE

\* elif six == cache
SameSymbol(six, cache) == six = cache

\* if cache is not None and run: nodes.append((cache, run))
CloseRun(nodes, cache, run) ==
    IF cache # None /\ run # 0 THEN Append(nodes, <<cache, run>>) ELSE nodes

RECURSIVE add_node(_, _, _, _)
RECURSIVE ScanRows(_, _, _, _, _, _)
RECURSIVE ScanCols(_, _, _, _, _, _, _)

\* for i in range(0, band): ... (lines 120-131); yields the symbol six and
\* the shared state after the discoveries made in this column.
ScanRows(yy, color, x, i, six, st) ==
    IF st.err \/ i >= BandHeight(yy)
    THEN [six |-> six, st |-> st]
    ELSE LET p == yy * width + x + width * i IN
         IF PixelFails(p)
         THEN [six |-> six, st |-> [st EXCEPT !.err = TRUE]]
         ELSE LET d == get_pixel(p) IN
              IF d = BG
              THEN ScanRows(yy, color, x, i + 1, six, st)
              ELSE IF IsColor(d, color)
              THEN ScanRows(yy, color, x, i + 1, SetBit(six, i), st)
              ELSE IF IsNew(d, st.seen)
              THEN ScanRows(yy, color, x, i + 1, six,
                            add_node(yy, d, x,
                                     [st EXCEPT !.seen = @ \cup {d}]))
              ELSE ScanRows(yy, color, x, i + 1, six, st)

\* for x in range(start_x, width): ... (lines 116-141)
ScanCols(yy, color, x, nodes, cache, run, st) ==
    IF st.err \/ x >= width
    THEN [nodes |-> nodes, cache |-> cache, run |-> run, st |-> st]
    ELSE LET r == ScanRows(yy, color, x, 0, 0, st) IN
         IF r.st.err
         THEN [nodes |-> nodes, cache |-> cache, run |-> run, st |-> r.st]
         ELSE IF cache = None
         THEN ScanCols(yy, color, x + 1, nodes, r.six, 1, r.st)
         ELSE IF SameSymbol(r.six, cache)
         THEN ScanCols(yy, color, x + 1, nodes, cache, run + 1, r.st)
         ELSE ScanCols(yy, color, x + 1, Append(nodes, <<cache, run>>),
                       r.six, 1, r.st)

\* def add_node(color, start_x) (lines 107-146)
add_node(yy, color, start_x, st) ==
    LET st1 == [st EXCEPT !.calls = Append(@, <<color, start_x>>)]
        c   == ScanCols(yy, color, start_x, LeadingRun(start_x), None, 0, st1)
    IN  IF c.st.err
        THEN c.st
        ELSE [c.st EXCEPT
                !.buf = Append(@, [color |-> color,
                                   nodes |-> CloseRun(c.nodes, c.cache, c.run)])]

\* for x in range(width): d = get_pixel(y*width + x); if d != BG: break
\* (lines 155-160): the column of the first non-BG pixel of the band's
\* first row, width when there is none, -1 when get_pixel raises.
RECURSIVE FirstVisible(_, _)
FirstVisible(yy, x) ==
    IF x >= width THEN width
    ELSE IF PixelFails(yy * width + x) THEN -1
    ELSE IF get_pixel(yy * width + x) # BG THEN x
    ELSE FirstVisible(yy, x + 1)

\* Band seeding (lines 148-163)
SeedBand(yy) ==
    IF PixelFails(yy * width)
    THEN [EmptyBand EXCEPT !.err = TRUE]
    ELSE LET first == get_pixel(yy * width) IN
         IF first # BG
         THEN add_node(yy, first, 0, [EmptyBand EXCEPT !.seen = {first}])
         ELSE LET x == FirstVisible(yy, 0) IN
              IF x = -1 THEN [EmptyBand EXCEPT !.err = TRUE]
              ELSE IF x = width THEN EmptyBand
              ELSE LET found == get_pixel(yy * width + x) IN
                   add_node(yy, found, x, [EmptyBand EXCEPT !.seen = {found}])

\* ------------------------------------------------------------- emission
\* One run (six, count) as written (lines 168-173)
RunToken(six, count) ==
    IF count < RepeatMin
    THEN <<"lit", SixelBase + six, count>>
    ELSE <<"rep", count, SixelBase + six>>

\* One Color Node as written (lines 167-174)
NodeTokens(node) ==
    << <<"col", node.color, 0>> >>
    \o [k \in 1..Len(node.nodes) |->
            RunToken(node.nodes[k][1], node.nodes[k][2])]
    \o << <<"cr", 0, 0>> >>

\* Mutant of BufTokens: buf is emitted back to front
RECURSIVE BufTokensBackwards(_)
BufTokensBackwards(buf) ==
    IF buf = <<>> THEN <<>>
    ELSE NodeTokens(buf[Len(buf)])
         \o BufTokensBackwards(SubSeq(buf, 1, Len(buf) - 1))

\* for color, nodes in buf: ... (lines 166-174)
RECURSIVE BufTokens(_)
BufTokens(buf) ==
    IF buf = <<>> THEN <<>>
    ELSE NodeTokens(Head(buf)) \o BufTokens(Tail(buf))

\* Mutant of SeparatorNeeded: <= in place of <
SeparatorAlsoLast(yy) == yy + BandRows <= height

\* if y + 6 < height: output.write("-")
SeparatorNeeded(yy) == yy + BandRows < height

SeparatorTokens(yy) ==
    IF SeparatorNeeded(yy) THEN << <<"sep", 0, 0>> >> ELSE <<>>

\* __write_header, skipped by body_only (lines 204-205, 60-73)
HeaderTokens(bodyOnly) ==
    IF bodyOnly THEN <<>>
    ELSE << <<"dcs", 0, 0>>, <<"hdr", width, height>> >>

\* the palette loop (lines 82-86)
PaletteTokens == [n \in 1..ncolor |-> <<"pal", n - 1, 0>>]

\* Mutant of TerminatorTokens: body_only is ignored
TerminatorAlways(bodyOnly) == << <<"st", 0, 0>> >>

\* __write_terminator, skipped by body_only (lines 207-208, 187-189)
TerminatorTokens(bodyOnly) ==
    IF bodyOnly THEN <<>> ELSE << <<"st", 0, 0>> >>

\* -------------------------------------------------------------- actions
\* write(output, body_only): the header step
WriteHeader ==
    /\ pc = "write"
    /\ out' = out \o HeaderTokens(body_only)
    /\ pc' = "palette"
    /\ UNCHANGED <<width, height, ncolor, data, alpha_threshold, rawdata,
                   body_only, y, bands>>

\* __write_body_bandwise: the palette definitions, then the band loop starts
WritePalette ==
    /\ pc = "palette"
    /\ out' = out \o PaletteTokens
    /\ y' = 0
    /\ pc' = IF 0 < height THEN "band" ELSE "term"
    /\ UNCHANGED <<width, height, ncolor, data, alpha_threshold, rawdata,
                   body_only, bands>>

\* One iteration of the band loop (lines 94-178): discovery, then emission
\* of buf, then the separator. An IndexError of rawdata[p] leaves write()
\* before anything of this band is written.
EncodeBand ==
    /\ pc = "band"
    /\ LET st == SeedBand(y) IN
       IF st.err
       THEN /\ pc' = "failed"
            /\ UNCHANGED <<out, y, bands>>
       ELSE /\ out' = out \o BufTokens(st.buf) \o SeparatorTokens(y)
            /\ bands' = Append(bands, [y |-> y, buf |-> st.buf,
                                       calls |-> st.calls])
            /\ y' = y + BandRows
            /\ pc' = IF y + BandRows < height THEN "band" ELSE "term"
    /\ UNCHANGED <<width, height, ncolor, data, alpha_threshold, rawdata,
                   body_only>>

\* write(): the terminator step
WriteTerminator ==
    /\ pc = "term"
    /\ out' = out \o TerminatorTokens(body_only)
    /\ pc' = "done"
    /\ UNCHANGED <<width, height, ncolor, data, alpha_threshold, rawdata,
                   body_only, y, bands>>

Next == WriteHeader \/ WritePalette \/ EncodeBand \/ WriteTerminator

\* ----------------------------------------------------------------- Init
\* The converter after __init__ and before write(): nothing written yet.
Fresh ==
    /\ pc = "write"
    /\ y = 0
    /\ out = <<>>
    /\ bands = <<>>

\* An image read without resizing: the RGBA buffer, when loaded, has the
\* size of the image. Pixels below the threshold carry index 0: get_pixel
\* returns BG for them before it reads data[p].
Unresized(w, h, nc) ==
    /\ width = w
    /\ height = h
    /\ ncolor = nc
    /\ \/ /\ alpha_threshold = 0
          /\ rawdata = <<>>
          /\ data \in [1..w * h -> 0..nc - 1]
       \/ /\ alpha_threshold = 128
          /\ \E px \in [1..w * h -> (0..nc - 1) \cup {BG}] :
                /\ data = [p \in 1..w * h |-> IF px[p] = BG THEN 0 ELSE px[p]]
                /\ rawdata = [p \in 1..w * h |->
                                 IF px[p] = BG THEN 0 ELSE 255]

Shapes == {s \in (1..MaxPixels) \X (1..MaxPixels) : s[1] * s[2] <= MaxPixels}

\* getvalue(): write(output) on an unresized image: any image of at most
\* MaxPixels pixels and MaxColor colours, or a two-colour single column of
\* up to MaxTall rows
Init ==
    /\ Fresh
    /\ body_only = FALSE
    /\ \/ \E s \in Shapes : Unresized(s[1], s[2], MaxColor)
       \/ \E h \in MaxPixels + 1..MaxTall : Unresized(1, h, 2)

Spec == Init /\ [][Next]_vars

\* write(output, body_only) on single-colour columns of up to three bands
InitWrite ==
    /\ Fresh
    /\ body_only \in BOOLEAN
    /\ \E h \in 1..MaxHeight : Unresized(1, h, 1)

SpecWrite == InitWrite /\ [][Next]_vars

\* __init__ with explicit w/h (lines 45-58): the indexed image is resized
\* to (w or file width, h or file height), the RGBA buffer is read from
\* the file as it is.
InitResize ==
    /\ Fresh
    /\ body_only \in BOOLEAN
    /\ ncolor = 1
    /\ alpha_threshold \in Thresholds
    /\ \E fw \in 1..MaxSide, fh \in 1..MaxSide,
          w \in 0..MaxSide + 1, h \in 0..MaxSide + 1 :
          /\ width = IF w # 0 THEN w ELSE fw
          /\ height = IF h # 0 THEN h ELSE fh
          /\ rawdata \in IF alpha_threshold > 0
                         THEN [1..fw * fh -> AlphaLevels]
                         ELSE {<<>>}
    /\ data \in [1..width * height -> 0..ncolor - 1]

SpecResize == InitResize /\ [][Next]_vars

\* ------------------------------------------------- reading the output back
\* The symbols of a run sequence, one per column (the run-expanded bitmask)
RECURSIVE Expand(_)
Expand(nodes) ==
    IF nodes = <<>> THEN <<>>
    ELSE [k \in 1..Head(nodes)[2] |-> Head(nodes)[1]] \o Expand(Tail(nodes))

RECURSIVE RunSum(_)
RunSum(nodes) ==
    IF nodes = <<>> THEN 0 ELSE Head(nodes)[2] + RunSum(Tail(nodes))

\* The symbol a node assigns to column x (0 when its runs end before x)
SymbolAt(nodes, x) ==
    LET e == Expand(nodes) IN IF x + 1 <= Len(e) THEN e[x + 1] ELSE 0

Bit(six, i) == (six \div Pow2(i)) % 2

\* The nodes of buf whose symbol at column x has bit i set
Setters(buf, x, i) ==
    {n \in 1..Len(buf) : Bit(SymbolAt(buf[n].nodes, x), i) = 1}

\* Overlaying the nodes in emission order: the last one that sets the bit
\* wins, None when no node sets it
Decoded(buf, x, i) ==
    LET s == Setters(buf, x, i) IN
    IF s = {} THEN None
    ELSE buf[CHOOSE n \in s : \A m \in s : m <= n].color

\* get_pixel at column x, sub-row i of the band starting at row yy
BandPixel(yy, x, i) == get_pixel(yy * width + x + width * i)

Cols == 0..width - 1
SubRows(yy) == 0..BandHeight(yy) - 1

\* The colours get_pixel returns somewhere in the band starting at row yy
VisibleColors(yy) ==
    {BandPixel(yy, x, i) : x \in Cols, i \in SubRows(yy)} \ {BG}

BandIds == 1..Len(bands)

BodyKinds == {"col", "lit", "rep", "cr", "sep"}

\* What the sink holds of the body: band output and separators
BodyTokens == SelectSeq(out, LAMBDA t : t[1] \in BodyKinds)

SepIdx(B) == {j \in 1..Len(B) : B[j][1] = "sep"}

\* Position of the k-th separator of B; 0 for k = 0, Len(B) + 1 past the last
NthSep(B, k) ==
    IF k = 0 THEN 0
    ELSE IF k > Cardinality(SepIdx(B)) THEN Len(B) + 1
    ELSE CHOOSE j \in SepIdx(B) :
            Cardinality({m \in SepIdx(B) : m <= j}) = k

\* The tokens between separator k-1 and separator k
Segment(B, k) == SubSeq(B, NthSep(B, k - 1) + 1, NthSep(B, k) - 1)

\* The colours of the "#c" tokens of a token sequence, in order
ColorsOf(toks) ==
    LET cs == SelectSeq(toks, LAMBDA t : t[1] = "col") IN
    [k \in 1..Len(cs) |-> cs[k][2]]

Reverse(s) == [k \in 1..Len(s) |-> s[Len(s) + 1 - k]]

CallColors(calls) == [k \in 1..Len(calls) |-> calls[k][1]]

NumBands == (height + BandRows - 1) \div BandRows

CountKind(kind) == Cardinality({j \in 1..Len(out) : out[j][1] = kind})

Rank(tok) ==
    CASE tok[1] = "dcs" -> 0
      [] tok[1] = "hdr" -> 1
      [] tok[1] = "pal" -> 2
      [] tok[1] = "st"  -> 4
      [] OTHER          -> 3

\* ----------------------------------------------------------------- claims

\* C1: round trip. In every encoded band, overlaying the run-expanded
\* bitmasks of the emitted Color Nodes gives, at every pixel whose
\* get_pixel is not BG, exactly that pixel's palette index.
C1_RoundTrip ==
    \A k \in BandIds : \A x \in Cols : \A i \in SubRows(bands[k].y) :
        BandPixel(bands[k].y, x, i) # BG
            => Decoded(bands[k].buf, x, i) = BandPixel(bands[k].y, x, i)

\* C2: in every encoded band the colours of the Color Nodes are exactly the
\* palette indices get_pixel returns somewhere in the band, one node each,
\* and never the BG sentinel.
C2_ColorsExact ==
    \A k \in BandIds :
        LET buf == bands[k].buf IN
        /\ {buf[n].color : n \in 1..Len(buf)} = VisibleColors(bands[k].y)
        /\ \A n, m \in 1..Len(buf) : buf[n].color = buf[m].color => n = m
        /\ \A n \in 1..Len(buf) : buf[n].color # BG

\* C3: mutual exclusion. In every band, for every column x and sub-row i in
\* 0..5 at most one Color Node has bit i set at column x; a BG pixel sets
\* it in no node, and a sub-row at or beyond the band height in no node.
C3_MutualExclusion ==
    \A k \in BandIds : \A x \in Cols : \A i \in 0..BandRows - 1 :
        LET s == Setters(bands[k].buf, x, i) IN
        /\ Cardinality(s) <= 1
        /\ i >= BandHeight(bands[k].y) => s = {}
        /\ (i < BandHeight(bands[k].y) /\ BandPixel(bands[k].y, x, i) = BG)
              => s = {}

\* C3 witness: a partial band with two Color Nodes and a BG pixel
C3_Witness ==
    \E k \in BandIds :
        /\ Len(bands[k].buf) >= 2
        /\ BandHeight(bands[k].y) < BandRows
        /\ \E x \in Cols, i \in SubRows(bands[k].y) :
              BandPixel(bands[k].y, x, i) = BG

\* C4: in every band the repeat counts of every Color Node sum to width,
\* leading zero run included, and every run has count >= 1.
C4_RunSums ==
    \A k \in BandIds : \A n \in 1..Len(bands[k].buf) :
        LET nodes == bands[k].buf[n].nodes IN
        /\ RunSum(nodes) = width
        /\ \A j \in 1..Len(nodes) : nodes[j][2] >= 1

\* C4 witness: a Color Node started at start_x > 0, led by the run (0, start_x)
C4_Witness ==
    \E k \in BandIds : \E n \in 1..Len(bands[k].buf) :
        \E c \in 1..Len(bands[k].calls) :
            /\ bands[k].calls[c][1] = bands[k].buf[n].color
            /\ bands[k].calls[c][2] > 0
            /\ bands[k].buf[n].nodes[1] = <<0, bands[k].calls[c][2]>>
            /\ Len(bands[k].buf[n].nodes) >= 2

\* C5 as claimed: within a band the Color Nodes are written in discovery
\* order (the order of the add_node calls), the seed colour first.
C5_DiscoveryOrder ==
    \A k \in BandIds :
        ColorsOf(Segment(BodyTokens, k)) = CallColors(bands[k].calls)

\* C5 amended: within a band the Color Nodes are written in reverse
\* discovery order: a colour added to seen later is written earlier, and
\* the seed colour is written last.
C5_ReverseDiscovery ==
    \A k \in BandIds :
        ColorsOf(Segment(BodyTokens, k))
            = Reverse(CallColors(bands[k].calls))

\* C5 witness: a band whose seed colour discovered a second colour
C5_Witness ==
    \E k \in BandIds :
        /\ Len(bands[k].calls) >= 2
        /\ Len(ColorsOf(Segment(BodyTokens, k))) >= 2

\* C6: the body is encoded as ceil(height/6) bands with exactly
\* ceil(height/6) - 1 separators, one after every band that has a
\* following band and none after the last, fully transparent bands included.
C6_Separators ==
    /\ Len(bands) <= NumBands
    /\ pc = "band" => /\ Len(bands) < NumBands
                      /\ CountKind("sep") = Len(bands)
    /\ pc \in {"term", "done"} =>
          /\ Len(bands) = NumBands
          /\ CountKind("sep") = NumBands - 1
          /\ Cardinality(SepIdx(BodyTokens)) = NumBands - 1
          /\ BodyTokens # <<>> =>
                \/ BodyTokens[Len(BodyTokens)][1] # "sep"
                \/ bands[NumBands].buf = <<>>

\* C6 witness: three bands written, one of them without any Color Node
C6_Witness ==
    /\ pc = "done"
    /\ Len(bands) = 3
    /\ \E k \in BandIds : bands[k].buf = <<>>
    /\ \E k \in BandIds : bands[k].buf # <<>>

\* C7: the sink receives introducer and header (once), then all palette
\* definitions (once), then the bands top to bottom, each written in full
\* before the next is encoded, then the terminator (once, last); body_only
\* drops introducer, header and terminator and nothing else.
C7_WriteOrder ==
    /\ \A j, k \in 1..Len(out) : j < k => Rank(out[j]) <= Rank(out[k])
    /\ CountKind("dcs") = (IF body_only \/ pc = "write" THEN 0 ELSE 1)
    /\ CountKind("hdr") = CountKind("dcs")
    /\ CountKind("st") = (IF ~body_only /\ pc = "done" THEN 1 ELSE 0)
    /\ SelectSeq(out, LAMBDA t : t[1] = "pal")
          = (IF pc \in {"write", "palette"} THEN <<>> ELSE PaletteTokens)
    /\ pc \in {"write", "palette"} => BodyTokens = <<>>
    /\ \A k \in BandIds :
          /\ bands[k].y = BandRows * (k - 1)
          /\ Segment(BodyTokens, k) = BufTokens(bands[k].buf)
    /\ pc = "band" => /\ y = BandRows * Len(bands)
                      /\ Segment(BodyTokens, Len(bands) + 1) = <<>>

\* C7 witness: a finished body_only write of three bands
C7_Witness ==
    /\ pc = "done"
    /\ body_only
    /\ Len(bands) = 3
    /\ \A k \in BandIds : bands[k].buf # <<>>

\* C8: a failure of write() is reported before anything is written: no
\* state has a failure with header, palette or bands already in the sink.
C8_NoPartialWrite == pc = "failed" => out = <<>>

\* C9: runs are maximal. In every Color Node no two adjacent runs carry the
\* same symbol, the leading run (0, start_x) and its successor included.
C9_RunsMaximal ==
    \A k \in BandIds : \A n \in 1..Len(bands[k].buf) :
        LET nodes == bands[k].buf[n].nodes IN
        \A j \in 1..Len(nodes) - 1 : nodes[j][1] # nodes[j + 1][1]

\* C9 witness: a Color Node with a leading zero run and a later zero run
C9_Witness ==
    \E k \in BandIds : \E n \in 1..Len(bands[k].buf) :
        LET nodes == bands[k].buf[n].nodes IN
        /\ Len(nodes) >= 3
        /\ nodes[1][1] = 0
        /\ nodes[3][1] = 0

\* C10: for every call add_node(color, start_x) of a band, no pixel in
\* columns 0..start_x-1 of the band has get_pixel equal to color.
C10_PrefixEmpty ==
    \A k \in BandIds : \A c \in 1..Len(bands[k].calls) :
        \A x \in 0..bands[k].calls[c][2] - 1 : \A i \in SubRows(bands[k].y) :
            BandPixel(bands[k].y, x, i) # bands[k].calls[c][1]

====
